---- MODULE Spec2Model ----
(***************************************************************************)
(* Model of async_pipeline_with_functions.cpp: a pipeline of std::async    *)
(* tasks (func1 -> func2 -> visualize) launched per sample by main, with   *)
(* visualisation serialised by the atomic current_idx and the number of    *)
(* pipelines in flight bounded by the deque visualize_futures.             *)
(*                                                                         *)
(* Pipelines are numbered by launch order: slot j (1-based) holds the      *)
(* three threads and the futures created by the j-th iteration of the      *)
(* loop in main.  The sample index travels as data (the .first of the      *)
(* pair), as in the source.                                                *)
(***************************************************************************)
EXTENDS Integers, Sequences, FiniteSets

\* Number of samples main submits (100 in the source, scaled down).
NumSamples == 4

\* Length of one clock tick in milliseconds; sleeps are counted in whole ticks.
TickMs == 250

\* size_t pipeline_depth = 2; the model explores every depth 0..pipeline_depth_max.
pipeline_depth_max == 2

\* Durations of the three sleep_for calls, in milliseconds.
Func1SleepMs == 900
Func2SleepMs == 950
PaceSleepMs == 1000

\* sleep_for(d) blocks for at least d: the thread may go on once
\* d \div TickMs whole ticks have passed (and at any later time).
Ticks(ms) == ms \div TickMs

PaceTicks == Ticks(PaceSleepMs)

VARIABLES
    main_pc,            \* position of main: "loop", "admit", "drain", "done", "terminated"
    idx,                \* loop counter of main
    pipeline_depth,     \* configured depth
    visualize_futures,  \* deque of handles (slots) of visualize tasks
    drain_it,           \* position of the range-for over visualize_futures
    current_idx,        \* std::atomic<unsigned long> current_idx
    future,             \* future[j][s+1]: state of future_s of slot j, s = 0, 1, 2
    future_vis,         \* future_vis[j]: state of the visualize future of slot j
    func,               \* func[j][s]: thread running func_s of slot j
    vis,                \* vis[j]: thread running visualize of slot j
    console,            \* samples printed by visualize, in print order
    since_print,        \* ticks since the last print of visualize, saturating at PaceTicks
    uncaught,           \* slot whose exception left main (0: none)
    resolved            \* sample indices in the order their func2 returned a value

vars == <<main_pc, idx, pipeline_depth, visualize_futures, drain_it, current_idx,
          future, future_vis, func, vis, console, since_print, uncaught, resolved>>

mainVars == <<main_pc, idx, pipeline_depth, visualize_futures, drain_it, uncaught>>

----------------------------------------------------------------------------
\* Shared state of a std::future: not yet set, holding a value, holding an exception.
NoItem == [first |-> 0, second |-> <<>>]
Pending == [st |-> "pending", val |-> NoItem]
Ready(v) == [st |-> "ready", val |-> v]
Exception == [st |-> "exception", val |-> NoItem]

\* future::get() rethrows the exception the shared state holds
FutureThrows(f) == f.st = "exception"

\* The thread that sets the shared state has ended (what ~future() of a future
\* returned by std::async, and future::get(), block on)
ThreadEndedBroken(f) == TRUE
ThreadEnded(f) == f.st # "pending"

\* std::string("input_string_") + std::to_string(idx)
input_str(i) == <<"input_string_", i>>

\* promise_0.set_value(std::make_pair(idx, input_str))
MakeInput(i) == [first |-> i, second |-> input_str(i)]

\* func1: output = input.second + " func1"; return make_pair(input.first, output)
func1(input) == [first |-> input.first, second |-> Append(input.second, " func1")]

\* func2: output = input.second + " func2"; return make_pair(input.first, output)
func2Broken(input) == [first |-> input.first, second |-> input.second]
func2(input) == [first |-> input.first, second |-> Append(input.second, " func2")]

StageFn(s, input) == IF s = 1 THEN func1(input) ELSE func2(input)
StageSleep(s) == IF s = 1 THEN Ticks(Func1SleepMs) ELSE Ticks(Func2SleepMs)

\* Threads as launched by std::async(std::launch::async, ...)
NewFunc == [pc |-> "get", input |-> NoItem, timer |-> 0]
NewVis == [pc |-> "get", input |-> NoItem, loaded |-> 0, timer |-> 0]

Slots == 1..Len(vis)
RunningDeferred == main_pc \in {"admit", "drain"}
Running == main_pc # "terminated"

----------------------------------------------------------------------------
Init ==
    /\ main_pc = "loop"
    /\ idx = 0
    /\ pipeline_depth \in 0..pipeline_depth_max
    /\ visualize_futures = <<>>
    /\ drain_it = 1
    /\ current_idx = 0
    /\ future = <<>>
    /\ future_vis = <<>>
    /\ func = <<>>
    /\ vis = <<>>
    /\ console = <<>>
    /\ since_print = PaceTicks
    /\ uncaught = 0
    /\ resolved = <<>>

----------------------------------------------------------------------------
\* main, lines 114-156: the submission loop

\* for (size_t idx = 0; idx < 100; idx++)
LoopCond(i) == i < NumSamples
LoopStepBroken(i) == i + 2
LoopStep(i) == i + 1

\* if (visualize_futures.size() > pipeline_depth)
PipelineFullBroken(size, depth) == size > depth + 1
PipelineFullEager(size, depth) == size >= depth
PipelineFull(size, depth) == size > depth

\* Lines 117-147: wrap the input into future_0, launch func1, func2 and visualize,
\* push the visualize future to the back of the deque.
Submit ==
    /\ main_pc = "loop"
    /\ LoopCond(idx)
    /\ future' = Append(future, <<Ready(MakeInput(idx)), Pending, Pending>>)
    /\ func' = Append(func, <<NewFunc, NewFunc>>)
    /\ vis' = Append(vis, NewVis)
    /\ future_vis' = Append(future_vis, Pending)
    /\ visualize_futures' = Append(visualize_futures, Len(vis) + 1)
    /\ main_pc' = "admit"
    /\ UNCHANGED <<idx, pipeline_depth, drain_it, current_idx, console, since_print, uncaught, resolved>>

\* Lines 151-158 with the pipeline not full: nothing to wait for, next iteration.
AdmitPass ==
    /\ main_pc = "admit"
    /\ ~PipelineFull(Len(visualize_futures), pipeline_depth)
    /\ idx' = LoopStep(idx)
    /\ main_pc' = "loop"
    /\ UNCHANGED <<pipeline_depth, visualize_futures, drain_it, current_idx, future,
                   future_vis, func, vis, console, since_print, uncaught, resolved>>

\* Lines 151-158 with the pipeline full: pop_front() runs the destructor of the
\* oldest future, which blocks until its thread has ended and drops whatever the
\* shared state holds (void or an exception); then the next iteration.
Evict ==
    /\ main_pc = "admit"
    /\ PipelineFull(Len(visualize_futures), pipeline_depth)
    /\ ThreadEnded(future_vis[Head(visualize_futures)])
    /\ visualize_futures' = Tail(visualize_futures)
    /\ idx' = LoopStep(idx)
    /\ main_pc' = "loop"
    /\ UNCHANGED <<pipeline_depth, drain_it, current_idx, future, future_vis, func, vis,
                   console, since_print, uncaught, resolved>>

\* Line 114 with the condition false: leave the loop, begin the range-for at 163.
LoopExit ==
    /\ main_pc = "loop"
    /\ ~LoopCond(idx)
    /\ main_pc' = "drain"
    /\ drain_it' = 1
    /\ UNCHANGED <<idx, pipeline_depth, visualize_futures, current_idx, future, future_vis,
                   func, vis, console, since_print, uncaught, resolved>>

\* fut.get() at line 165 throws when the visualize future holds an exception
HandleNeverThrows(f) == FALSE
HandleThrows(f) == FutureThrows(f)

\* Line 165: fut.get() blocks until the visualize thread has ended; it returns, or
\* rethrows the stored exception, which nothing in main catches.
DrainGet ==
    /\ main_pc = "drain"
    /\ drain_it <= Len(visualize_futures)
    /\ LET h == visualize_futures[drain_it] IN
        /\ ThreadEnded(future_vis[h])
        /\ IF HandleThrows(future_vis[h])
              THEN /\ main_pc' = "terminated"
                   /\ uncaught' = h
                   /\ UNCHANGED drain_it
              ELSE /\ drain_it' = drain_it + 1
                   /\ UNCHANGED <<main_pc, uncaught>>
    /\ UNCHANGED <<idx, pipeline_depth, visualize_futures, current_idx, future, future_vis,
                   func, vis, console, since_print, resolved>>

\* Lines 169-170: the range-for is over, main returns.
DrainEnd ==
    /\ main_pc = "drain"
    /\ drain_it > Len(visualize_futures)
    /\ main_pc' = "done"
    /\ UNCHANGED <<idx, pipeline_depth, visualize_futures, drain_it, current_idx, future,
                   future_vis, func, vis, console, since_print, uncaught, resolved>>

----------------------------------------------------------------------------
\* func1 / func2, lines 20-44 (s = 1: func1 reading future_0, s = 2: func2 reading future_1)

\* const auto input = future_input.get(): blocks until the input future is set;
\* a stored exception is rethrown and ends the function, which stores it in the
\* function's own future.  Otherwise the sleep begins.
StageGet(j, s) ==
    /\ Running
    /\ func[j][s].pc = "get"
    /\ ThreadEnded(future[j][s])
    /\ IF FutureThrows(future[j][s])
          THEN /\ func' = [func EXCEPT ![j][s] = [pc |-> "ended", input |-> NoItem, timer |-> 0]]
               /\ future' = [future EXCEPT ![j][s + 1] = Exception]
          ELSE /\ func' = [func EXCEPT ![j][s] =
                              [pc |-> "sleep", input |-> future[j][s].val,
                               timer |-> StageSleep(s)]]
               /\ UNCHANGED future
    /\ UNCHANGED <<mainVars, current_idx, future_vis, vis, console, since_print, resolved>>

\* The sleep is over, the output is built and returned: the function's future
\* holds the value.
StageReturn(j, s) ==
    /\ Running
    /\ func[j][s].pc = "sleep"
    /\ func[j][s].timer = 0
    /\ func' = [func EXCEPT ![j][s] = [pc |-> "ended", input |-> NoItem, timer |-> 0]]
    /\ future' = [future EXCEPT ![j][s + 1] = Ready(StageFn(s, func[j][s].input))]
    /\ resolved' = IF s = 2 THEN Append(resolved, func[j][s].input.first) ELSE resolved
    /\ UNCHANGED <<mainVars, current_idx, future_vis, vis, console, since_print>>

\* The function throws instead (building the output string may throw): the
\* function's future holds the exception.
StageThrow(j, s) ==
    /\ Running
    /\ func[j][s].pc = "sleep"
    /\ func[j][s].timer = 0
    /\ func' = [func EXCEPT ![j][s] = [pc |-> "ended", input |-> NoItem, timer |-> 0]]
    /\ future' = [future EXCEPT ![j][s + 1] = Exception]
    /\ UNCHANGED <<mainVars, current_idx, future_vis, vis, console, since_print, resolved>>

----------------------------------------------------------------------------
\* visualize, lines 51-89

\* while (this_idx != current_idx.load()): the loop is left when they are equal
TurnArrivedBroken(this_idx, cur) == this_idx >= cur
TurnArrived(this_idx, cur) == this_idx = cur

\* Order of the statements after the loop: print (74), sleep_for 1000 ms (84),
\* current_idx.load() (88), current_idx.store() (88), return.
VisStepBroken(pc) ==
    CASE pc = "print" -> "load"
      [] pc = "load" -> "store"
      [] pc = "store" -> "pace"
      [] pc = "pace" -> "ended"
VisStep(pc) ==
    CASE pc = "print" -> "pace"
      [] pc = "pace" -> "load"
      [] pc = "load" -> "store"
      [] pc = "store" -> "ended"

\* current_idx.store(current_idx.load() + 1): the value stored
AdvanceValueBroken(loaded) == loaded
AdvanceValueSkips(loaded) == loaded + 2
AdvanceValue(loaded) == loaded + 1

\* Moving a visualize thread to statement pc: entering the sleep arms its timer,
\* returning sets the thread's future.
VisGoto(j, pc) ==
    /\ vis' = [vis EXCEPT ![j].pc = pc,
                          ![j].timer = IF pc = "pace" THEN PaceTicks ELSE 0,
                          ![j].input = IF pc = "ended" THEN NoItem ELSE @,
                          ![j].loaded = IF pc = "ended" THEN 0 ELSE @]
    /\ future_vis' = IF pc = "ended" THEN [future_vis EXCEPT ![j] = Ready(NoItem)]
                                     ELSE future_vis

\* Line 55: future_input.get() blocks until future_2 is set; a stored exception is
\* rethrown, visualize ends and its future holds the exception.
VisGet(j) ==
    /\ Running
    /\ vis[j].pc = "get"
    /\ ThreadEnded(future[j][3])
    /\ IF FutureThrows(future[j][3])
          THEN /\ vis' = [vis EXCEPT ![j].pc = "ended"]
               /\ future_vis' = [future_vis EXCEPT ![j] = Exception]
          ELSE /\ vis' = [vis EXCEPT ![j].pc = "poll", ![j].input = future[j][3].val]
               /\ UNCHANGED future_vis
    /\ UNCHANGED <<mainVars, current_idx, future, func, console, since_print, resolved>>

\* Line 65: one evaluation of the loop condition.
VisPoll(j) ==
    /\ Running
    /\ vis[j].pc = "poll"
    /\ vis' = [vis EXCEPT ![j].pc =
                  IF TurnArrived(vis[j].input.first, current_idx) THEN "print" ELSE "backoff"]
    /\ UNCHANGED <<mainVars, current_idx, future, future_vis, func, console, since_print, resolved>>

\* Line 70: sleep_for(1 us), then the condition again.
VisBackoff(j) ==
    /\ Running
    /\ vis[j].pc = "backoff"
    /\ vis' = [vis EXCEPT ![j].pc = "poll"]
    /\ UNCHANGED <<mainVars, current_idx, future, future_vis, func, console, since_print, resolved>>

\* Lines 74-76: print the sample.  gap records the ticks since the previous print.
VisPrint(j) ==
    /\ Running
    /\ vis[j].pc = "print"
    /\ console' = Append(console, [first |-> vis[j].input.first,
                                   second |-> vis[j].input.second,
                                   gap |-> since_print])
    /\ since_print' = 0
    /\ VisGoto(j, VisStep("print"))
    /\ UNCHANGED <<mainVars, current_idx, future, func, resolved>>

\* Line 84: sleep_for(1000 ms) is over.
VisPaceDone(j) ==
    /\ Running
    /\ vis[j].pc = "pace"
    /\ vis[j].timer = 0
    /\ VisGoto(j, VisStep("pace"))
    /\ UNCHANGED <<mainVars, current_idx, future, func, console, since_print, resolved>>

\* Line 88, first half: current_idx.load()
VisLoad(j) ==
    /\ Running
    /\ vis[j].pc = "load"
    /\ vis' = [vis EXCEPT ![j].pc = VisStep("load"), ![j].loaded = current_idx]
    /\ UNCHANGED <<mainVars, current_idx, future, future_vis, func, console, since_print, resolved>>

\* Line 88, second half: current_idx.store(loaded + 1)
VisStore(j) ==
    /\ Running
    /\ vis[j].pc = "store"
    /\ current_idx' = AdvanceValue(vis[j].loaded)
    /\ VisGoto(j, VisStep("store"))
    /\ UNCHANGED <<mainVars, future, func, console, since_print, resolved>>

----------------------------------------------------------------------------
\* The clock: one tick passes for every sleeping thread.
Sleeping == \/ \E j \in Slots : vis[j].timer > 0
            \/ \E j \in Slots : \E s \in 1..2 : func[j][s].timer > 0

Tick ==
    /\ Running
    /\ Sleeping \/ since_print < PaceTicks
    /\ vis' = [j \in Slots |-> [vis[j] EXCEPT !.timer = IF @ > 0 THEN @ - 1 ELSE 0]]
    /\ func' = [j \in Slots |->
                  [s \in 1..2 |-> [func[j][s] EXCEPT !.timer = IF @ > 0 THEN @ - 1 ELSE 0]]]
    /\ since_print' = IF since_print < PaceTicks THEN since_print + 1 ELSE since_print
    /\ UNCHANGED <<mainVars, current_idx, future, future_vis, console, resolved>>

----------------------------------------------------------------------------
Next ==
    \/ Submit
    \/ AdmitPass
    \/ Evict
    \/ LoopExit
    \/ DrainGet
    \/ DrainEnd
    \/ \E j \in Slots : \E s \in 1..2 : StageGet(j, s)
    \/ \E j \in Slots : \E s \in 1..2 : StageReturn(j, s)
    \/ \E j \in Slots : \E s \in 1..2 : StageThrow(j, s)
    \/ \E j \in Slots : VisGet(j)
    \/ \E j \in Slots : VisPoll(j)
    \/ \E j \in Slots : VisBackoff(j)
    \/ \E j \in Slots : VisPrint(j)
    \/ \E j \in Slots : VisPaceDone(j)
    \/ \E j \in Slots : VisLoad(j)
    \/ \E j \in Slots : VisStore(j)
    \/ Tick

Spec == Init /\ [][Next]_vars

----------------------------------------------------------------------------
\* Vocabulary of the properties

\* Sample index submitted in slot j (the value main put into future_0)
Index(j) == future[j][1].val.first

\* A stage of slot j threw, or inherited an exception
Failed(j) == future[j][2].st = "exception" \/ future[j][3].st = "exception"
NoFailure == \A j \in Slots : ~Failed(j)

\* visualize of slot j is between leaving the poll loop and finishing the store
InCritical(j) == vis[j].pc \in {"print", "pace", "load", "store"}

\* visualize of slot j ran to its end: printed, slept, advanced current_idx
SinkCompleted(j) == future_vis[j].st = "ready"

Printed == {console[p].first : p \in 1..Len(console)}

\* The handle of slot j has left the deque through pop_front()
Evicted(j) == \A p \in 1..Len(visualize_futures) : visualize_futures[p] # j

\* main has called get() on the handle of slot j in the final loop and the call
\* is over (it returned or threw)
DrainAwaited(j) ==
    /\ main_pc \in {"drain", "done", "terminated"}
    /\ \E p \in 1..Len(visualize_futures) :
          /\ visualize_futures[p] = j
          /\ p < drain_it \/ (p = drain_it /\ main_pc = "terminated")

----------------------------------------------------------------------------
\* C1: whatever the order in which the stages of different samples finish, the
\* samples are printed in the order 0, 1, 2, ...: the p-th print is of index
\* p - 1 (none twice, none skipped, none before a smaller one); and when main
\* has returned from a run in which no stage failed, all NumSamples samples
\* have been printed.
C1_PrintOrder ==
    /\ \A p \in 1..Len(console) : console[p].first = p - 1
    /\ (main_pc = "done" /\ NoFailure) =>
          [p \in 1..Len(console) |-> console[p].first] = [p \in 1..NumSamples |-> p - 1]

\* C1 witness: a run without failure has ended with every sample printed, and a
\* later sample left func2 before an earlier one.
C1_Witness ==
    /\ main_pc = "done"
    /\ NoFailure
    /\ Len(console) = NumSamples
    /\ \E p, q \in 1..Len(resolved) : p < q /\ resolved[p] > resolved[q]

\* C2: at most one visualize is between its poll loop and the end of its store,
\* and it is the one whose index current_idx holds.
C2_OneInCritical ==
    \A j \in Slots :
        InCritical(j) =>
            /\ current_idx = vis[j].input.first
            /\ \A k \in Slots : InCritical(k) => k = j

\* C2 witness: one visualize is in the critical section while another one, of a
\* later sample, polls and is turned away.
C2_Witness ==
    \E j, k \in Slots :
        /\ vis[j].pc = "pace"
        /\ vis[k].pc = "backoff"
        /\ vis[k].input.first > vis[j].input.first

\* C3 as stated: the pipelines launched whose visualize has not completed its
\* advance of current_idx are never more than pipeline_depth + 1.
C3_ActiveNotAdvanced ==
    Cardinality({j \in Slots : ~SinkCompleted(j)}) <= pipeline_depth + 1

\* C3 as amended: the pipelines launched whose visualize thread has not ended
\* (by completing its advance, or by rethrowing the exception of a failed
\* stage) are never more than pipeline_depth + 1.
C3_ActiveBound ==
    Cardinality({j \in Slots : future_vis[j].st = "pending"}) <= pipeline_depth + 1

\* C3 witness: more pipelines have been launched than the bound, and exactly
\* pipeline_depth + 1 of them are still running.
C3_Witness ==
    /\ Len(vis) > pipeline_depth + 1
    /\ pipeline_depth >= 1
    /\ Cardinality({j \in Slots : future_vis[j].st = "pending"}) = pipeline_depth + 1

\* C4: visualize waits for its turn, prints, then sleeps the whole pacing
\* interval, then advances current_idx: a visualize about to print has not
\* printed yet, one that sleeps, loads or stores made the latest print, one that
\* loads or stores (or has returned) printed at least PaceTicks ago, and every
\* print after the first comes at least PaceTicks after the print before it.
C4_PaceBeforeAdvance ==
    /\ \A j \in Slots :
           /\ vis[j].pc \in {"get", "poll", "backoff", "print"} => Index(j) \notin Printed
           /\ vis[j].pc \in {"pace", "load", "store"} =>
                  /\ console # <<>>
                  /\ console[Len(console)].first = vis[j].input.first
                  /\ current_idx = vis[j].input.first
           /\ vis[j].pc \in {"load", "store"} => since_print >= PaceTicks
           /\ SinkCompleted(j) => (Index(j) \in Printed /\ current_idx > Index(j))
           /\ (SinkCompleted(j) /\ console[Len(console)].first = Index(j)) =>
                  since_print >= PaceTicks
    /\ \A p \in 2..Len(console) : console[p].gap >= PaceTicks

\* C4 witness: a second sample has been printed, and its visualize has slept
\* and is about to store the advanced index.
C4_Witness ==
    /\ Len(console) >= 2
    /\ \E j \in Slots : vis[j].pc = "store" /\ vis[j].input.first >= 1

StalledBehind ==
    \A j \in Slots :
        future[j][3].st # "ready" =>
            /\ Index(j) \notin Printed
            /\ current_idx <= Index(j)
            /\ \A k \in Slots :
                   Index(k) > Index(j) =>
                       /\ Index(k) \notin Printed
                       /\ ~InCritical(k)
                       /\ ~SinkCompleted(k)

\* C6: a sample whose stages failed or have not delivered blocks itself and
\* every later sample (StalledBehind, in every state), and a failure stays: a
\* future that holds an exception holds it for ever, so the block never ends.
C6_FailedStalls ==
    /\ []StalledBehind
    /\ [][\A j \in Slots :
              /\ future[j][3].st = "exception" => future'[j][3].st = "exception"
              /\ future[j][2].st = "exception" => future'[j][2].st = "exception"]_vars

\* C6 witness: a stage of one sample has failed, the visualize of a later sample
\* is in the poll loop, and main is blocked in pop_front() on that later handle.
C6_Witness ==
    \E j, k \in Slots :
        /\ Failed(j)
        /\ Index(k) > Index(j)
        /\ vis[k].pc = "backoff"
        /\ main_pc = "admit"
        /\ PipelineFull(Len(visualize_futures), pipeline_depth)
        /\ Head(visualize_futures) = k

----------------------------------------------------------------------------
\* Scheduling: every thread that can take a step eventually takes one, and time
\* passes.  Throwing is never forced.
MainStep == Submit \/ AdmitPass \/ Evict \/ LoopExit \/ DrainGet \/ DrainEnd
FuncStep(j, s) == j \in Slots /\ (StageGet(j, s) \/ StageReturn(j, s))
VisThreadStep(j) ==
    /\ j \in Slots
    /\ \/ VisGet(j) \/ VisPoll(j) \/ VisBackoff(j) \/ VisPrint(j)
       \/ VisPaceDone(j) \/ VisLoad(j) \/ VisStore(j)

FairSpec ==
    /\ Spec
    /\ WF_vars(MainStep)
    /\ WF_vars(Tick)
    /\ \A j \in 1..NumSamples : WF_vars(VisThreadStep(j))
    /\ \A j \in 1..NumSamples : \A s \in 1..2 : WF_vars(FuncStep(j, s))

\* C7: in a fairly scheduled run in which no stage fails main reaches its end;
\* and when main has reached its end without a failure, all NumSamples samples
\* have been printed, every visualize has completed and current_idx = NumSamples.
C7_DrainCompletes ==
    /\ ([]NoFailure) => <>(main_pc = "done")
    /\ [](main_pc = "done" /\ NoFailure =>
            /\ Len(vis) = NumSamples
            /\ \A j \in Slots : SinkCompleted(j)
            /\ Len(console) = NumSamples
            /\ current_idx = NumSamples)

\* C7 witness: main has returned, nothing failed, all samples went through.
C7_Witness ==
    /\ main_pc = "done"
    /\ NoFailure
    /\ current_idx = NumSamples
    /\ \A j \in 1..NumSamples : SinkCompleted(j)

----------------------------------------------------------------------------
\* C8 as stated: when the pipeline of slot j > pipeline_depth + 1 has been
\* launched, the visualize of slot j - pipeline_depth - 1 has completed (print,
\* pacing sleep, advance).
C8_LaunchAfterCompleted ==
    \A j \in Slots :
        j > pipeline_depth + 1 => SinkCompleted(j - pipeline_depth - 1)

\* C8 as amended: when the pipeline of slot j > pipeline_depth + 1 has been
\* launched, the visualize thread of slot j - pipeline_depth - 1 has ended: it
\* has completed (printed, slept, advanced current_idx past its index), or it
\* has ended on the exception of a failed stage of its sample.
C8_LaunchAfterEnded ==
    \A j \in Slots :
        j > pipeline_depth + 1 =>
            LET o == j - pipeline_depth - 1 IN
                \/ /\ future_vis[o].st = "ready"
                   /\ Index(o) \in Printed
                   /\ current_idx > Index(o)
                \/ /\ future_vis[o].st = "exception"
                   /\ Failed(o)

\* C8 witness: with pipeline_depth = 0 a second pipeline has been launched, after
\* the first one printed and advanced; nothing has failed.
C8_Witness ==
    /\ pipeline_depth = 0
    /\ NoFailure
    /\ Len(vis) >= 2
    /\ future_vis[Len(vis)].st = "pending"

\* C9: the j-th pipeline launched carries index j - 1 (counting slots from 1),
\* through every stage; the loop counter equals the number of pipelines
\* launched, no index is given twice, and the loop ends with exactly the
\* indices 0..NumSamples-1 given.
C9_IndexAssignment ==
    /\ \A j \in Slots : future[j][1].st = "ready" /\ Index(j) = j - 1
    /\ \A j, k \in Slots : Index(j) = Index(k) => j = k
    /\ \A j \in Slots :
           /\ \A s \in 1..2 : func[j][s].pc = "sleep" => func[j][s].input.first = j - 1
           /\ vis[j].pc \notin {"get", "ended"} => vis[j].input.first = j - 1
    /\ main_pc = "loop" => idx = Len(vis)
    /\ main_pc = "admit" => idx = Len(vis) - 1
    /\ main_pc \in {"drain", "done", "terminated"} =>
           {Index(j) : j \in Slots} = 0..(NumSamples - 1)

\* C9 witness: the loop is over and the last sample is on its way with the last index.
C9_Witness ==
    /\ main_pc = "drain"
    /\ Len(vis) = NumSamples
    /\ vis[NumSamples].pc = "poll"
    /\ vis[NumSamples].input.first = NumSamples - 1

\* C10: func2 works only on the value func1 returned for the same sample,
\* visualize only on the value func2 returned, and what is printed under index
\* i is the input string of index i with " func1" and then " func2" attached.
C10_StageChain ==
    /\ \A j \in Slots :
           /\ func[j][1].pc = "sleep" =>
                  func[j][1].input = [first |-> j - 1, second |-> <<"input_string_", j - 1>>]
           /\ func[j][2].pc = "sleep" =>
                  /\ future[j][2].st = "ready"
                  /\ func[j][1].pc = "ended"
                  /\ func[j][2].input =
                         [first |-> j - 1, second |-> <<"input_string_", j - 1, " func1">>]
           /\ vis[j].pc \notin {"get", "ended"} =>
                  /\ future[j][3].st = "ready"
                  /\ func[j][2].pc = "ended"
                  /\ vis[j].input =
                         [first |-> j - 1,
                          second |-> <<"input_string_", j - 1, " func1", " func2">>]
    /\ \A p \in 1..Len(console) :
           console[p].second = <<"input_string_", console[p].first, " func1", " func2">>

\* C10 witness: a sample other than the first has been printed.
C10_Witness ==
    \E p \in 1..Len(console) :
        /\ console[p].first = 2
        /\ console[p].second = <<"input_string_", 2, " func1", " func2">>

----------------------------------------------------------------------------
\* C11: current_idx starts at 0, and every step that changes it is the store of
\* the visualize whose index is the current value, made after that visualize
\* printed its sample, and raises it by exactly 1; a visualize stores once (it
\* ends with the store); no step of main, func1, func2, of a polling visualize
\* or of the clock changes it.
C11_OnlyOwnerAdvances ==
    /\ current_idx = 0
    /\ [][current_idx' # current_idx =>
            /\ current_idx' = current_idx + 1
            /\ \E j \in Slots :
                  /\ vis[j].pc = "store"
                  /\ vis[j].input.first = current_idx
                  /\ vis[j].input.first \in Printed
                  /\ vis'[j].pc = "ended"
                  /\ \A k \in Slots \ {j} : vis'[k] = vis[k]
            /\ UNCHANGED <<mainVars, func, future, console>>]_vars
    /\ [][\A j \in Slots : vis[j].pc = "ended" => vis'[j].pc = "ended"]_vars

\* C11 witness: two visualize calls have advanced current_idx in turn, a third one
\* holds the turn and another one polls.
C11_Witness ==
    /\ current_idx = 2
    /\ \E j, k \in Slots :
          /\ vis[j].pc = "pace"
          /\ vis[j].input.first = 2
          /\ vis[k].pc = "poll"

\* C12: the deque visualize_futures never holds more than pipeline_depth + 1
\* handles, and at most pipeline_depth whenever main is outside the admission
\* check (the iteration's eviction is over); it holds the handles of the latest
\* pipelines launched, oldest first, so the handle popped is always the oldest
\* one; and every step that shortens the deque removes exactly its front.
C12_DequeBound ==
    /\ [](/\ Len(visualize_futures) <= pipeline_depth + 1
          /\ main_pc # "admit" => Len(visualize_futures) <= pipeline_depth
          /\ \A p \in 1..Len(visualize_futures) :
                visualize_futures[p] = Len(vis) - Len(visualize_futures) + p)
    /\ [][Len(visualize_futures') < Len(visualize_futures) =>
            /\ visualize_futures' = Tail(visualize_futures)
            /\ \A p \in 1..Len(visualize_futures') :
                  visualize_futures'[p] > Head(visualize_futures)]_vars

\* C12 witness: the deque is over its bound with pipeline_depth + 1 handles, main
\* is about to pop the oldest, and an older handle has been popped before.
C12_Witness ==
    /\ main_pc = "admit"
    /\ pipeline_depth = 2
    /\ Len(visualize_futures) = pipeline_depth + 1
    /\ Head(visualize_futures) = 2

\* C13: main never waits while the admission bound is not exceeded: in the
\* admission check with at most pipeline_depth handles in the deque its next
\* step (leave the check and go on with the loop) can be taken at once,
\* whatever the stages and visualize calls are doing, and a pending launch can
\* always be made; it waits only with the deque over the bound and the oldest
\* visualize still running.
C13_SubmitDoesNotWait ==
    /\ (main_pc = "admit" /\ Len(visualize_futures) <= pipeline_depth) => ENABLED AdmitPass
    /\ (main_pc = "loop" /\ idx < NumSamples) => ENABLED Submit
    /\ (main_pc = "admit" /\ ~ENABLED MainStep) =>
           /\ Len(visualize_futures) = pipeline_depth + 1
           /\ future_vis[Head(visualize_futures)].st = "pending"

\* C13 witness: main has launched pipeline_depth = 2 pipelines and is back at the
\* head of the loop while no stage of any of them has returned, or even begun.
C13_Witness ==
    /\ pipeline_depth = 2
    /\ main_pc = "loop"
    /\ Len(vis) = pipeline_depth
    /\ \A j \in Slots :
          /\ func[j][1].pc = "get"
          /\ func[j][2].pc = "get"
          /\ future[j][2].st = "pending"
          /\ vis[j].pc = "get"

\* func1 or func2 of slot j is at work (between taking its input and returning)
InStage(j) == func[j][1].pc = "sleep" \/ func[j][2].pc = "sleep"

\* Both stages of slot j have returned their value
StagesFinished(j) == future[j][3].st = "ready"

\* C14: the stages of a sample run on their own threads and wait for nothing
\* but their own input and their own sleep: whatever main, the other samples
\* and current_idx are doing, a stage whose input future is set can take it, and
\* a stage whose sleep is over can return; so stages of different samples that
\* are ready to finish may finish in either order.  Only visualize waits for
\* other samples: a visualize that cannot step is polling for its turn.
C14_StagesIndependent ==
    main_pc # "terminated" =>
        /\ \A j \in Slots : \A s \in 1..2 :
              /\ (func[j][s].pc = "get" /\ future[j][s].st # "pending") =>
                     ENABLED StageGet(j, s)
              /\ (func[j][s].pc = "sleep" /\ func[j][s].timer = 0) =>
                     ENABLED StageReturn(j, s)
        /\ \A j, k \in Slots :
              (func[j][2].pc = "sleep" /\ func[j][2].timer = 0
               /\ func[k][2].pc = "sleep" /\ func[k][2].timer = 0) =>
                  (ENABLED StageReturn(j, 2) /\ ENABLED StageReturn(k, 2))
        /\ \A j \in Slots :
              (vis[j].pc \notin {"get", "pace", "ended"}) => ENABLED VisThreadStep(j)

\* C14 witness: with pipeline_depth >= 1, two different samples are inside a
\* stage at the same time while a later sample has finished both its stages
\* and an earlier one has not.
C14_Witness ==
    /\ pipeline_depth >= 1
    /\ \E j, k \in Slots : j # k /\ InStage(j) /\ InStage(k)
    /\ \E i \in Slots : i + 1 \in Slots /\ StagesFinished(i + 1) /\ ~StagesFinished(i)

\* With pipeline_depth = 1 already: two samples inside a stage at once
C14_ParallelAtDepth1 ==
    /\ pipeline_depth = 1
    /\ \E j, k \in Slots : j # k /\ InStage(j) /\ InStage(k)

\* With pipeline_depth = 1 already: a later sample finished its stages first
C14_OutOfOrderAtDepth1 ==
    /\ pipeline_depth = 1
    /\ \E i \in Slots : i + 1 \in Slots /\ StagesFinished(i + 1) /\ InStage(i)

\* C15: the advance is two steps, a load and then a store, with other threads
\* running in between; still nothing is lost: while a visualize is between its
\* load and its store, current_idx is still the value it loaded (its own
\* index), because no other thread stores; and its store leaves current_idx at
\* exactly the loaded value plus 1.
C15_NoLostUpdate ==
    /\ [](\A j \in Slots :
             vis[j].pc = "store" =>
                 /\ vis[j].loaded = current_idx
                 /\ vis[j].loaded = vis[j].input.first
                 /\ \A k \in Slots \ {j} : vis[k].pc \notin {"load", "store"})
    /\ [][\A j \in Slots :
             (vis[j].pc = "store" /\ vis'[j].pc # "store") =>
                 /\ current_idx' = vis[j].loaded + 1
                 /\ current_idx' = current_idx + 1]_vars
    /\ [][\A j \in Slots :
             (vis[j].pc = "store" /\ vis'[j].pc = "store") => current_idx' = current_idx]_vars

\* C15 witness: a visualize has loaded current_idx and not yet stored, while
\* the visualize of the next sample is reading current_idx in its poll loop
\* and a stage of a third sample is at work.
C15_Witness ==
    \E j, k, m \in Slots :
        /\ vis[j].pc = "store"
        /\ vis[j].loaded = 1
        /\ vis[k].pc = "poll"
        /\ vis[k].input.first = 2
        /\ func[m][2].pc = "sleep"

\* C16: current_idx is the number of visualize calls that have completed their
\* advance, it never exceeds the number of pipelines main has launched, and
\* the completed visualize calls are exactly those of indices 0..current_idx-1.
C16_CountsCompleted ==
    /\ current_idx = Cardinality({j \in Slots : SinkCompleted(j)})
    /\ current_idx <= Len(vis)
    /\ {Index(j) : j \in {k \in Slots : SinkCompleted(k)}} = 0..(current_idx - 1)

\* C16 witness: two visualize calls have completed, more pipelines than that
\* have been launched, and one launched later has failed without completing.
C16_Witness ==
    /\ current_idx = 2
    /\ Len(vis) > 3
    /\ \E j \in Slots : Failed(j) /\ future_vis[j].st = "exception"

====
